---- MODULE Spec2Model ----
(***************************************************************************)
(* A model of ms2txt: the Metastock index readers (MASTER, EMASTER), the   *)
(* symbol catalog (MetastockFiles), the DAT record decoder (DatFile) and   *)
(* the helpers of metastock/utils.py.                                      *)
(*                                                                         *)
(* Bytes are naturals 0..255 and byte strings are sequences of bytes.      *)
(* A Python float is a record: [kind |-> "fin", neg, man, exp] stands for  *)
(* (-1)^neg * man * 2^exp, and "inf" / "nan" are the IEEE specials.        *)
(* An operator that can raise returns [kind |-> "err", exc |-> <type>].    *)
(***************************************************************************)
EXTENDS Integers, Sequences, FiniteSets, TLC

VARIABLES
    pc,                 \* position of the (single) thread of control
    encoding,           \* the encoding given to the readers
    FloatColumn_precision, \* DatFile.FloatColumn.precision (a class attribute)
    masterFile,         \* the MASTER file and the records the constructor read
    emasterFile,        \* the EMASTER file and the records the constructor read
    catalogs,           \* the MetastockFiles objects constructed so far
    master_count,       \* master.reconds_count of the constructor running
    emaster_count,      \* emaster.reconds_count of the constructor running
    i,                  \* loop index of the constructor's record loops
    openHandles,        \* the file handles that are open
    exc,                \* the exception an operation ended with (None if none)
    cur,                \* index in catalogs of the catalog output_ascii runs on
    all_symbols,        \* output_ascii's all_symbols argument
    symbols,            \* output_ascii's symbols argument (a set of codes)
    iterIdx,            \* position of output_ascii's loop in the catalog
    attempted,          \* file numbers dump_stock_to_file was called for
    errorLog,           \* symbol codes printed by "Error while converting"
    stock,              \* DatFile.stock
    columns,            \* DatFile.columns
    dopFile,            \* the DOP file load_columns found
    datFile,            \* the DAT file opened by dump_candles
    max_recs,           \* DatFile.max_recs
    last_rec,           \* DatFile.last_rec
    cursor,             \* read position of the DAT file handle
    outfile,            \* lines written to <symbol>.TXT (created: the file exists)
    line,               \* the output line being written
    rec,                \* index of the record loop of dump_candles
    col,                \* index of the column loop of dump_candles
    arg,                \* argument of the utils function applied
    ret,                \* result of the utils function applied
    xmasterFile,        \* the XMASTER file
    xmaster             \* a MSXMsterFile reader object

vars == <<pc, encoding, FloatColumn_precision, masterFile, emasterFile,
          catalogs, master_count, emaster_count, i, openHandles, exc, cur,
          all_symbols, symbols, iterIdx, attempted, errorLog, stock, columns,
          dopFile, datFile, max_recs, last_rec, cursor, outfile, line, rec, col, arg,
          ret, xmasterFile, xmaster>>

None == "None"

Err(e) == [kind |-> "err", exc |-> e]
IsErr(v) == v.kind = "err"

\* ------------------------------------------------------------------------
\* Python integer and bit operations

RECURSIVE Pow2(_)
Pow2(n) == IF n = 0 THEN 1 ELSE 2 * Pow2(n - 1)

RECURSIVE BitAnd(_, _)
BitAnd(a, b) ==
    IF a = 0 \/ b = 0 THEN 0
    ELSE (IF a % 2 = 1 /\ b % 2 = 1 THEN 1 ELSE 0) + 2 * BitAnd(a \div 2, b \div 2)

RECURSIVE BitOr(_, _)
BitOr(a, b) ==
    IF a = 0 THEN b
    ELSE IF b = 0 THEN a
    ELSE (IF a % 2 = 1 \/ b % 2 = 1 THEN 1 ELSE 0) + 2 * BitOr(a \div 2, b \div 2)

\* x & 0xFFFF of a Python integer x of either sign (two's complement)
Low16(x) == x % 65536

\* x >> 1 of a Python integer of either sign: the floor of x / 2
Shr1(x) == IF x >= 0 THEN x \div 2 ELSE -((1 - x) \div 2)

\* ------------------------------------------------------------------------
\* struct.unpack

\* the bytes a read returns: s[a..b], cut at the end of s
Slice(s, a, b) ==
    LET e == IF b < Len(s) THEN b ELSE Len(s)
    IN  IF e < a THEN <<>> ELSE SubSeq(s, a, e)

\* struct.unpack("H", b): little-endian unsigned 16 bit
UnpackH(b) ==
    IF Len(b) # 2 THEN Err("struct.error")
    ELSE [kind |-> "int", v |-> b[1] + 256 * b[2]]

Zero(neg) == [kind |-> "fin", neg |-> neg, man |-> 0, exp |-> 0]

\* struct.unpack("f", b): IEEE-754 single, little-endian
UnpackF(b) ==
    LET sign == b[4] \div 128
        e    == 2 * (b[4] % 128) + (b[3] \div 128)
        frac == 65536 * (b[3] % 128) + 256 * b[2] + b[1]
    IN  IF e = 255
          THEN IF frac = 0 THEN [kind |-> "inf", neg |-> (sign = 1)]
                           ELSE [kind |-> "nan"]
        ELSE IF e = 0
          THEN IF frac = 0 THEN Zero(sign = 1)
               ELSE [kind |-> "fin", neg |-> (sign = 1), man |-> frac, exp |-> -149]
        ELSE [kind |-> "fin", neg |-> (sign = 1), man |-> 8388608 + frac,
              exp |-> e - 150]

\* ------------------------------------------------------------------------
\* metastock/utils.py

fmsbin2ieee(data) ==
    IF Len(data) # 4 THEN Err("struct.error")      \* struct.unpack("i", data)
    ELSE
    LET man0 == UnpackH(SubSeq(data, 3, 4)).v
        exp  == BitAnd(man0, 65280) - 512           \* may be negative
        man1 == BitOr(BitAnd(man0, 127), BitAnd(man0 * 256, 32768))
        \* man |= exp >> 1, of which only the low 16 bits are packed
        man2 == BitOr(Low16(man1), Low16(Shr1(exp)))
    IN  IF man0 = 0 THEN Zero(FALSE)
        ELSE UnpackF(<<data[1], data[2], BitAnd(man2, 255),
                       BitAnd(man2 \div 256, 255)>>)

\* The model's integers: a magnitude of IntLimit or more is kept as "huge"
IntLimit == Pow2(30)

\* int(x) of a Python float: truncation toward zero
PyInt(x) ==
    IF x.kind = "err" THEN x
    ELSE IF x.kind = "nan" THEN Err("ValueError")
    ELSE IF x.kind = "inf" THEN Err("OverflowError")
    ELSE IF x.man = 0 THEN [kind |-> "int", v |-> 0]
    ELSE IF x.exp >= 7 THEN [kind |-> "huge", neg |-> x.neg]
    ELSE LET mag == IF x.exp >= 0 THEN x.man * Pow2(x.exp)
                    ELSE IF x.exp <= -31 THEN 0
                    ELSE x.man \div Pow2(-x.exp)
         IN  IF mag >= IntLimit THEN [kind |-> "huge", neg |-> x.neg]
             ELSE [kind |-> "int", v |-> IF x.neg THEN -mag ELSE mag]

IsLeap(y) == (y % 4 = 0 /\ y % 100 # 0) \/ y % 400 = 0

DaysInMonth(y, m) ==
    IF m = 2 THEN (IF IsLeap(y) THEN 29 ELSE 28)
    ELSE IF m \in {4, 6, 9, 11} THEN 30 ELSE 31

\* datetime.date(year, month, day)
MakeDate(y, m, d) ==
    IF y >= 1 /\ y <= 9999 /\ m >= 1 /\ m <= 12 /\ d >= 1 /\ d <= DaysInMonth(y, m)
    THEN [kind |-> "date", year |-> y, month |-> m, day |-> d]
    ELSE Err("ValueError")

\* datetime.time(hour, minute)
MakeTime(h, m) ==
    IF h >= 0 /\ h <= 23 /\ m >= 0 /\ m <= 59
    THEN [kind |-> "time", hour |-> h, minute |-> m, second |-> 0]
    ELSE Err("ValueError")

float2date_noOffset(date) ==
    \* the split of int2date: the year without the 1900 offset
    LET n == PyInt(date)
    IN  IF n.kind = "err" THEN n
        ELSE IF n.kind = "huge"
          THEN IF n.neg THEN MakeDate(0, 1, 1) ELSE Err("OverflowError")
        ELSE LET d == IF n.v < 101 THEN 101 ELSE n.v
             IN MakeDate(d \div 10000, (d % 10000) \div 100, d % 100)

float2date(date) ==
    LET n == PyInt(date)
    IN  IF n.kind = "err" THEN n
        ELSE IF n.kind = "huge"
          THEN IF n.neg THEN MakeDate(1900, 1, 1) ELSE Err("OverflowError")
        ELSE LET d == IF n.v < 101 THEN 101 ELSE n.v
             IN MakeDate(1900 + (d \div 10000), (d % 10000) \div 100, d % 100)

float2time(time) ==
    LET n == PyInt(time)
    IN  IF n.kind = "err" THEN n
        ELSE IF n.kind = "huge" THEN Err("OverflowError")
        ELSE MakeTime(n.v \div 10000, (n.v % 10000) \div 100)

\* decode of paddedString: bytes to code points under the given encoding
DecodeBytes(s, enc) ==
    IF enc = "ascii" /\ \E k \in 1..Len(s) : s[k] >= 128
    THEN Err("UnicodeDecodeError")
    ELSE [kind |-> "str",
          v |-> [k \in 1..Len(s) |-> IF s[k] < 128 THEN s[k] ELSE 256 + s[k]]]

\* s.find(0) as a 1-based index, 0 when there is no zero byte
FindZero(s) ==
    IF \E k \in 1..Len(s) : s[k] = 0
    THEN CHOOSE k \in 1..Len(s) : s[k] = 0 /\ \A j \in 1..(k - 1) : s[j] # 0
    ELSE 0

RECURSIVE RStripSpaces(_)
RStripSpaces(s) ==
    IF Len(s) > 0 /\ s[Len(s)] = 32 THEN RStripSpaces(SubSeq(s, 1, Len(s) - 1))
    ELSE s

paddedString(s, enc) ==
    LET end == FindZero(s)
        cut == IF end > 0 THEN SubSeq(s, 1, end - 1) ELSE s
        d   == DecodeBytes(cut, enc)
    IN  IF IsErr(d) THEN d ELSE [kind |-> "str", v |-> RStripSpaces(d.v)]

\* ------------------------------------------------------------------------
\* Bounds and the sample contents of the files on disk

MaxRecords == 2             \* largest record count of an index file header
MaxLastRec == 3             \* largest last_rec of a DAT file header
MaxConstructions == 2       \* catalogs constructed in one process

NameLen == 16               \* bytes of a padded name field
SymbolLen == 14             \* bytes of a padded symbol field

Pad(s, n) == s \o [k \in 1..(n - Len(s)) |-> 0]

\* the 4 bytes of an MBF number with the given high word and a zero low word
Cell(hi) == <<0, 0, hi % 256, hi \div 256>>

ZeroCell == Cell(0)         \* 0.0, date 1900-01-01
BadDateCell == Cell(37120)  \* 0x9100: 65536.0, month 55: no calendar date

Encodings == {"ascii", "cp1250"}
\* the precision argument: <<>> is None, <<p>> is the integer p
PrecisionArgs == {<<>>, <<4>>}

NameOLD == <<79, 76, 68>>
NameNEW == <<78, 69, 87>>
NameX == <<88, 32, 32>>         \* "X" and two spaces before the zero padding
NameBad == <<200, 65>>          \* not ASCII
SymAAA == <<65, 65, 65>>
SymBBB == <<66, 66, 66>>

\* a slot the file is too short to hold: every read returns b''
Truncated == [file_number |-> -1]

MSlot(fn, rl, fc, name, first, sym) ==
    [file_number |-> fn, record_length |-> rl, fields |-> fc,
     name |-> Pad(name, NameLen), first_date |-> first, last_date |-> ZeroCell,
     time_frame |-> 68, symbol |-> Pad(sym, SymbolLen)]

\* record slots a MASTER file may hold
MasterSlots ==
    { MSlot(0, 0, 0, <<>>, ZeroCell, <<>>),
      MSlot(1, 28, 7, NameOLD, ZeroCell, SymAAA),
      MSlot(2, 32, 8, NameOLD, ZeroCell, SymBBB),
      MSlot(1, 12, 3, NameX, ZeroCell, SymBBB),
      MSlot(2, 28, 7, NameBad, ZeroCell, SymAAA),
      MSlot(1, 28, 7, NameOLD, BadDateCell, SymAAA) }

ESlot(fn, fc, name, sym) ==
    [file_number |-> fn, fields |-> fc, name |-> Pad(name, NameLen),
     first_date |-> ZeroCell, last_date |-> ZeroCell, time_frame |-> 87,
     symbol |-> Pad(sym, SymbolLen)]

\* record slots an EMASTER file may hold
EMasterSlots ==
    { ESlot(0, 0, <<>>, <<>>),
      ESlot(1, 5, NameNEW, SymBBB),
      ESlot(1, 5, <<>>, SymBBB),
      ESlot(2, 5, NameNEW, SymAAA),
      ESlot(2, 5, NameBad, SymAAA) }

\* the headers a MASTER file may start with: none (an empty file) or a count
MasterHeaders == {<<>>} \cup {<<n, 0>> : n \in 0..MaxRecords}

\* the headers of an EMASTER file: the count and the "last file" value
EMasterHeaders ==
    {<<>>} \cup {<<n, 0>> : n \in 0..MaxRecords}
           \cup {<<n, 0, n, 0>> : n \in 0..MaxRecords}

\* An index file f is [exists, content, records]: content "any" stands for a
\* file of any header and any slots above, "one" for a file of one good record
MasterHeadersOf(f) == IF f.content = "one" THEN {<<1, 0>>} ELSE MasterHeaders
MasterSlotsOf(f) ==
    IF f.content = "one" THEN {MSlot(1, 28, 7, NameOLD, ZeroCell, SymAAA)}
    ELSE MasterSlots \cup {Truncated}
EMasterHeadersOf(f) == IF f.content = "one" THEN {<<1, 0, 1, 0>>} ELSE EMasterHeaders
EMasterSlotsOf(f) ==
    IF f.content = "one" THEN {ESlot(1, 5, NameNEW, SymBBB)}
    ELSE EMasterSlots \cup {Truncated}

\* ------------------------------------------------------------------------
\* metastock/files.py: Stock and the index readers

\* the class attributes of Stock
Stock ==
    [file_number |-> 0, record_length |-> 0, fields |-> 0, stock_symbol |-> <<>>,
     stock_name |-> <<>>, first_date |-> [kind |-> "None"],
     last_date |-> [kind |-> "None"], time_frame |-> 68, datafile_ext |-> "",
     filename |-> <<>>]

\* the first error among the values, or the value built from them
FirstErr(vals, ok) ==
    IF \E k \in 1..Len(vals) : IsErr(vals[k])
    THEN vals[CHOOSE k \in 1..Len(vals) :
                  IsErr(vals[k]) /\ \A j \in 1..(k - 1) : ~IsErr(vals[j])]
    ELSE ok

\* the one-byte time frame decoded as ASCII
DecodeTimeFrame(b) ==
    IF b >= 128 THEN Err("UnicodeDecodeError") ELSE [kind |-> "chr", v |-> b]

\* MSMasterFile.load_symbol on the slot read
MSMasterFile_load_symbol(slot, enc) ==
    IF slot = Truncated THEN Err("struct.error")
    ELSE LET name   == paddedString(slot.name, enc)
             first  == float2date(fmsbin2ieee(slot.first_date))
             last   == float2date(fmsbin2ieee(slot.last_date))
             frame  == DecodeTimeFrame(slot.time_frame)
             symbol == paddedString(slot.symbol, "ascii")
         IN FirstErr(<<name, first, last, frame, symbol>>,
              [kind |-> "stock", v |->
                [file_number |-> slot.file_number,
                 filename |-> <<"F", slot.file_number>>,
                 datafile_ext |-> ".DAT",
                 record_length |-> slot.record_length,
                 fields |-> slot.fields,
                 stock_name |-> name.v, first_date |-> first,
                 last_date |-> last, time_frame |-> frame.v,
                 stock_symbol |-> symbol.v]])

\* MSEMasterFile.load_symbol on the slot read
MSEMasterFile_load_symbol(slot, enc) ==
    IF slot = Truncated THEN Err("struct.error")
    ELSE IF slot.file_number = 0 THEN [kind |-> "stock", v |-> Stock]
    ELSE LET symbol == paddedString(slot.symbol, "ascii")
             name   == paddedString(slot.name, enc)
             frame  == DecodeTimeFrame(slot.time_frame)
             first  == float2date(fmsbin2ieee(slot.first_date))
             last   == float2date(fmsbin2ieee(slot.last_date))
         IN FirstErr(<<symbol, name, frame, first, last>>,
              [kind |-> "stock", v |->
                [Stock EXCEPT !.file_number = slot.file_number,
                              !.filename = <<"F", slot.file_number>>,
                              !.datafile_ext = ".DAT",
                              !.fields = slot.fields,
                              !.stock_symbol = symbol.v,
                              !.stock_name = name.v,
                              !.time_frame = frame.v,
                              !.first_date = first,
                              !.last_date = last]])

\* ------------------------------------------------------------------------
\* MetastockFiles.__init__

\* self.symbols[k] = s of a dict that keeps insertion order
DictSet(cat, k, s) ==
    [cat EXCEPT !.symbols = (k :> s) @@ cat.symbols,
                !.order = IF k \in DOMAIN cat.symbols THEN cat.order
                          ELSE Append(cat.order, k)]

MasterStore_noGuard(cat, s) ==
    \* stores the symbol of an unused slot as well
    DictSet(cat, s.file_number, s)

\* the body of the MASTER loop after load_symbol
MasterStore(cat, s) ==
    IF s.file_number > 0 THEN DictSet(cat, s.file_number, s) ELSE cat

EmasterMerge_replace(cat, s) ==
    \* takes the whole EMASTER symbol instead of its name
    IF s.file_number > 0 /\ Len(s.stock_name) > 0 /\ s.file_number \in DOMAIN cat.symbols
    THEN [cat EXCEPT !.symbols[s.file_number] = s]
    ELSE cat

EmasterMerge_insert(cat, s) ==
    \* stores an EMASTER symbol that has no MASTER entry
    IF s.file_number > 0 /\ Len(s.stock_name) > 0
    THEN IF s.file_number \in DOMAIN cat.symbols
         THEN [cat EXCEPT !.symbols[s.file_number].stock_name = s.stock_name]
         ELSE DictSet(cat, s.file_number, s)
    ELSE cat

\* the body of the EMASTER loop after load_symbol
EmasterMerge(cat, s) ==
    IF s.file_number > 0 /\ Len(s.stock_name) > 0 /\ s.file_number \in DOMAIN cat.symbols
    THEN [cat EXCEPT !.symbols[s.file_number].stock_name = s.stock_name]
    ELSE cat

\* the catalog under construction
Building == catalogs[Len(catalogs)]

dumpVars == <<cur, all_symbols, symbols, iterIdx, attempted, errorLog, stock,
              columns, dopFile, datFile, max_recs, last_rec, cursor, outfile,
              line, rec, col>>
codecVars == <<arg, ret>>
xmasterVars == <<xmasterFile, xmaster>>

\* raise e out of the constructor: nothing in __init__ catches it
CtorRaise(e) ==
    /\ exc' = e
    /\ pc' = "raised"

Construct(enc, precision) ==
    /\ pc \in {"start", "ready"}
    /\ FloatColumn_precision' =
          IF precision # <<>> THEN precision[1] ELSE FloatColumn_precision
    /\ encoding' = enc
    /\ catalogs' = Append(catalogs,
          [symbols |-> <<>>, order |-> <<>>, precision |-> precision])
    /\ masterFile' = [masterFile EXCEPT !.records = <<>>]
    /\ emasterFile' = [emasterFile EXCEPT !.records = <<>>]
    /\ master_count' = 0
    /\ emaster_count' = 0
    /\ i' = 0
    /\ pc' = "master_load"
    /\ UNCHANGED <<openHandles, exc, dumpVars, codecVars, xmasterVars>>

\* master.load()
MasterLoad ==
    /\ pc = "master_load"
    /\ IF ~masterFile.exists
       THEN /\ pc' = "master_loop"
            /\ UNCHANGED <<openHandles, master_count, exc>>
       ELSE /\ openHandles' = openHandles \cup {"MASTER"}
            /\ \E hdr \in MasterHeadersOf(masterFile) :
                 LET n == UnpackH(hdr)
                 IN  IF IsErr(n)
                     THEN CtorRaise(n.exc) /\ UNCHANGED master_count
                     ELSE /\ master_count' = n.v
                          /\ pc' = "master_loop"
                          /\ UNCHANGED exc
    /\ UNCHANGED <<encoding, FloatColumn_precision, masterFile, emasterFile,
                   catalogs, emaster_count, i, dumpVars, codecVars, xmasterVars>>

\* one iteration of the MASTER loop
MasterLoadSymbol ==
    /\ pc = "master_loop"
    /\ master_count > 0 /\ i < master_count
    /\ \E slot \in MasterSlotsOf(masterFile) :
         LET s == MSMasterFile_load_symbol(slot, encoding)
         IN  /\ masterFile' = [masterFile EXCEPT !.records = Append(@, slot)]
             /\ IF IsErr(s)
                THEN CtorRaise(s.exc) /\ UNCHANGED <<catalogs, i>>
                ELSE /\ catalogs' = [catalogs EXCEPT ![Len(catalogs)] =
                                        MasterStore(Building, s.v)]
                     /\ i' = i + 1
                     /\ UNCHANGED <<pc, exc>>
    /\ UNCHANGED <<encoding, FloatColumn_precision, emasterFile, master_count,
                   emaster_count, openHandles, dumpVars, codecVars, xmasterVars>>

\* master.close()
MasterClose ==
    /\ pc = "master_loop"
    /\ ~(master_count > 0 /\ i < master_count)
    /\ openHandles' = openHandles \ {"MASTER"}
    /\ i' = 0
    /\ pc' = "emaster_load"
    /\ UNCHANGED <<encoding, FloatColumn_precision, masterFile, emasterFile,
                   catalogs, master_count, emaster_count, exc, dumpVars,
                   codecVars, xmasterVars>>

\* emaster.load(): the record count and the "last file" value
EmasterLoad ==
    /\ pc = "emaster_load"
    /\ IF ~emasterFile.exists
       THEN /\ pc' = "emaster_loop"
            /\ UNCHANGED <<openHandles, emaster_count, exc>>
       ELSE /\ openHandles' = openHandles \cup {"EMASTER"}
            /\ \E hdr \in EMasterHeadersOf(emasterFile) :
                 LET n == UnpackH(Slice(hdr, 1, 2))
                     last_file == UnpackH(Slice(hdr, 3, 4))
                 IN  IF IsErr(n) \/ IsErr(last_file)
                     THEN /\ CtorRaise("struct.error")
                          /\ emaster_count' = IF IsErr(n) THEN 0 ELSE n.v
                     ELSE /\ emaster_count' = n.v
                          /\ pc' = "emaster_loop"
                          /\ UNCHANGED exc
    /\ UNCHANGED <<encoding, FloatColumn_precision, masterFile, emasterFile,
                   catalogs, master_count, i, dumpVars, codecVars, xmasterVars>>

\* one iteration of the EMASTER loop
EmasterLoadSymbol ==
    /\ pc = "emaster_loop"
    /\ emaster_count > 0 /\ i < emaster_count
    /\ \E slot \in EMasterSlotsOf(emasterFile) :
         LET s == MSEMasterFile_load_symbol(slot, encoding)
         IN  /\ emasterFile' = [emasterFile EXCEPT !.records = Append(@, slot)]
             /\ IF IsErr(s)
                THEN CtorRaise(s.exc) /\ UNCHANGED <<catalogs, i>>
                ELSE /\ catalogs' = [catalogs EXCEPT ![Len(catalogs)] =
                                        EmasterMerge(Building, s.v)]
                     /\ i' = i + 1
                     /\ UNCHANGED <<pc, exc>>
    /\ UNCHANGED <<encoding, FloatColumn_precision, masterFile, master_count,
                   emaster_count, openHandles, dumpVars, codecVars, xmasterVars>>

\* emaster.close()
EmasterClose ==
    /\ pc = "emaster_loop"
    /\ ~(emaster_count > 0 /\ i < emaster_count)
    /\ openHandles' = openHandles \ {"EMASTER"}
    /\ pc' = "ctor_return"
    /\ UNCHANGED <<encoding, FloatColumn_precision, masterFile, emasterFile,
                   catalogs, master_count, emaster_count, i, exc, dumpVars,
                   codecVars, xmasterVars>>

\* __init__ returns: the readers (locals) are dropped
CtorReturn ==
    /\ pc = "ctor_return"
    /\ encoding' = None
    /\ master_count' = 0
    /\ emaster_count' = 0
    /\ i' = 0
    /\ masterFile' = [masterFile EXCEPT !.records = <<>>]
    /\ emasterFile' = [emasterFile EXCEPT !.records = <<>>]
    /\ pc' = "ready"
    /\ UNCHANGED <<FloatColumn_precision, catalogs, openHandles, exc, dumpVars,
                   codecVars, xmasterVars>>

\* ------------------------------------------------------------------------
\* MSXMsterFile: the constructor builds one and never loads it (the XMASTER
\* part of __init__ is a string literal); the reader is used on its own here

\* the attributes of a MSXMsterFile object: the class defaults
MSXMsterFile == [reconds_count |-> 0, file_handle |-> None]

\* the bytes at offset 10 of an XMASTER file: none (a file of 10 bytes or
\* fewer), one byte, or the record count
XMasterHeaders == {<<>>, <<1>>} \cup {<<n, 0>> : n \in 0..MaxRecords}

\* MSXMsterFile.load(): nothing happens when XMASTER is absent
XmasterLoad ==
    /\ pc = "start"
    /\ IF ~xmasterFile.exists
       THEN /\ pc' = "xmaster_loaded"
            /\ UNCHANGED <<xmaster, openHandles, exc>>
       ELSE /\ openHandles' = openHandles \cup {"XMASTER"}
            /\ \E hdr \in XMasterHeaders :
                 LET n == UnpackH(hdr)
                 IN  IF IsErr(n)
                     THEN /\ xmaster' = [xmaster EXCEPT !.file_handle = "XMASTER"]
                          /\ exc' = n.exc
                          /\ pc' = "xmaster_raised"
                     ELSE /\ xmaster' = [reconds_count |-> n.v,
                                         file_handle |-> "XMASTER"]
                          /\ pc' = "xmaster_loaded"
                          /\ UNCHANGED exc
    /\ UNCHANGED <<encoding, FloatColumn_precision, masterFile, emasterFile,
                   catalogs, master_count, emaster_count, i, dumpVars, codecVars,
                   xmasterFile>>

\* MSXMsterFile.close(): closes the handle if there is one
XmasterClose ==
    /\ pc = "xmaster_loaded"
    /\ IF xmaster.file_handle # None
       THEN /\ openHandles' = openHandles \ {xmaster.file_handle}
            /\ xmaster' = [xmaster EXCEPT !.file_handle = None]
       ELSE UNCHANGED <<openHandles, xmaster>>
    /\ pc' = "xmaster_closed"
    /\ UNCHANGED <<encoding, FloatColumn_precision, masterFile, emasterFile,
                   catalogs, master_count, emaster_count, i, exc, dumpVars,
                   codecVars, xmasterFile>>

\* ------------------------------------------------------------------------
\* DatFile: the column registry

unknownColumnDataSize == 4
dataSize == 4               \* Column.dataSize

NoColumn == [type |-> "None", name |-> ""]

\* DatFile.knownMSColumns.get(name)
knownMSColumns(name) ==
    CASE name = "DATE"  -> [type |-> "Date", name |-> "Date"]
      [] name = "TIME"  -> [type |-> "Time", name |-> "Time"]
      [] name = "OPEN"  -> [type |-> "Float", name |-> "Open"]
      [] name = "HIGH"  -> [type |-> "Float", name |-> "High"]
      [] name = "LOW"   -> [type |-> "Float", name |-> "Low"]
      [] name = "CLOSE" -> [type |-> "Float", name |-> "Close"]
      [] name = "VOL"   -> [type |-> "Int", name |-> "Volume"]
      [] name = "OI"    -> [type |-> "Int", name |-> "Oi"]
      [] OTHER          -> NoColumn

\* col.read(bytes) of the column classes
ColumnRead(column, bytes) ==
    CASE column.type = "Date"  -> float2date(fmsbin2ieee(bytes))
      [] column.type = "Time"  -> float2time(fmsbin2ieee(bytes))
      [] column.type = "Float" -> fmsbin2ieee(bytes)
      [] column.type = "Int"   -> PyInt(fmsbin2ieee(bytes))

\* col.format(value): the text written, as the value and the way it is printed
ColumnFormat(column, value, precision) ==
    CASE column.type = "Date" ->
           [t |-> "%Y%m%d", v |-> value.year * 10000 + value.month * 100 + value.day]
      [] column.type = "Time" ->
           [t |-> "%H%M%S", v |-> value.hour * 10000 + value.minute * 100 + value.second]
      [] column.type = "Float" ->
           [t |-> "%0.f", v |-> value, digits |-> precision]
      [] column.type = "Int" ->
           [t |-> "str", v |-> value]

ColumnAdvance_known(column, nread) ==
    \* an unknown column leaves the cursor where it is
    IF column = NoColumn THEN 0 ELSE nread

\* bytes the cursor moves for one column: a seek over an unknown column, the
\* bytes read (nread, fewer than dataSize at the end of the file) of a known one
ColumnAdvance(column, nread) ==
    IF column = NoColumn THEN unknownColumnDataSize ELSE nread

\* the labels of the header line: '"Name"' and one per known column
RECURSIVE HeaderLabels(_)
HeaderLabels(cols) ==
    IF cols = <<>> THEN <<>>
    ELSE LET c == knownMSColumns(Head(cols))
         IN (IF c # NoColumn THEN <<[t |-> "label", v |-> c.name]>> ELSE <<>>)
            \o HeaderLabels(Tail(cols))

\* ------------------------------------------------------------------------
\* DOP and DAT files

Token(name) == [match |-> TRUE, name |-> name]
Junk == [match |-> FALSE, name |-> ""]      \* a token the pattern does not match

NoDop == [exists |-> FALSE, readable |-> FALSE, tokens |-> <<>>]
Dop(tokens) == [exists |-> TRUE, readable |-> TRUE, tokens |-> tokens]

\* what an F<n>.DOP file may be
DopFiles ==
    { NoDop,
      [exists |-> TRUE, readable |-> FALSE, tokens |-> <<>>],
      Dop(<<Token("DATE"), Token("FOO"), Token("CLOSE")>>),
      Dop(<<Token("FOO"), Token("BAR"), Token("BAZ")>>),
      Dop(<<Token("DATE"), Junk, Token("CLOSE")>>) }

load_columns_anyCount(st, dop) ==
    \* takes the default columns for any field count
    IF ~dop.exists
    THEN [kind |-> "cols", v |->
            IF st.fields = 7
            THEN <<"DATE", "OPEN", "HIGH", "LOW", "CLOSE", "VOL", "OI">>
            ELSE <<"DATE", "TIME", "OPEN", "HIGH", "LOW", "CLOSE", "VOL", "OI">>]
    ELSE IF ~dop.readable THEN Err("UnicodeDecodeError")
    ELSE IF Len(dop.tokens) # st.fields THEN Err("AssertionError")
    ELSE IF \E k \in 1..Len(dop.tokens) : ~dop.tokens[k].match
      THEN Err("AttributeError")
    ELSE [kind |-> "cols", v |-> [k \in 1..Len(dop.tokens) |-> dop.tokens[k].name]]

\* DatFile.load_columns: the columns, or the exception raised
load_columns(st, dop) ==
    IF ~dop.exists
    THEN IF st.fields \notin {7, 8} THEN Err("AssertionError")
         ELSE [kind |-> "cols", v |->
                 IF st.fields = 7
                 THEN <<"DATE", "OPEN", "HIGH", "LOW", "CLOSE", "VOL", "OI">>
                 ELSE <<"DATE", "TIME", "OPEN", "HIGH", "LOW", "CLOSE", "VOL", "OI">>]
    ELSE IF ~dop.readable THEN Err("UnicodeDecodeError")
    ELSE IF Len(dop.tokens) # st.fields THEN Err("AssertionError")
    ELSE IF \E k \in 1..Len(dop.tokens) : ~dop.tokens[k].match
      THEN Err("AttributeError")
    ELSE [kind |-> "cols", v |-> [k \in 1..Len(dop.tokens) |-> dop.tokens[k].name]]

\* a DAT file's content: the MBF number at 4-byte offset k has the high word
\* base + step * k and a zero low word
DatFiles ==
    { [exists |-> TRUE, base |-> 34628, step |-> 2],    \* 98 + k: dates and times
      [exists |-> TRUE, base |-> 257, step |-> 0] }     \* exponent byte 1
NoDat == [exists |-> FALSE, base |-> 0, step |-> 0]

\* the bytes of the file at the cursor
BytesAt(f, pos) == Cell(f.base + f.step * (pos \div 4))

\* ------------------------------------------------------------------------
\* exceptions

Exceptions ==
    {"AssertionError", "AttributeError", "FileNotFoundError", "OSError",
     "OverflowError", "struct.error", "UnicodeDecodeError", "ValueError"}

ExceptException_onlyOSError(e) ==
    \* a handler for I/O errors alone
    e \in {"FileNotFoundError", "OSError"}

\* "except Exception": every exception the program raises is an Exception
ExceptException(e) == e \in Exceptions

\* ------------------------------------------------------------------------
\* MetastockFiles.output_ascii, dump_stock_to_file and DatFile

ctorVars == <<encoding, FloatColumn_precision, masterFile, emasterFile, catalogs,
              master_count, emaster_count, i>>
callVars == <<cur, all_symbols, symbols>>

NoStock == Stock
NoOutfile == [created |-> FALSE, lines |-> <<>>, partial |-> <<>>]

\* the state of a DatFile object before dump() runs
FreshDatFile ==
    /\ columns' = <<>>
    /\ dopFile' = NoDop
    /\ datFile' = NoDat
    /\ max_recs' = 0
    /\ last_rec' = 0
    /\ cursor' = 0
    /\ outfile' = NoOutfile
    /\ line' = <<>>
    /\ rec' = 0
    /\ col' = 0

\* the arguments a caller may give: all_symbols and the symbol codes
CallArgs ==
    { [all |-> TRUE, symbols |-> {}],
      [all |-> FALSE, symbols |-> {SymAAA}],
      [all |-> FALSE, symbols |-> {}] }

OutputAscii(c, all, syms) ==
    /\ pc = "ready"
    /\ cur' = c
    /\ all_symbols' = all
    /\ symbols' = syms
    /\ iterIdx' = 0
    /\ attempted' = <<>>
    /\ errorLog' = <<>>
    /\ pc' = "iter"
    /\ UNCHANGED <<ctorVars, openHandles, exc, stock, columns, dopFile, datFile,
                   max_recs, last_rec, cursor, outfile, line, rec, col, codecVars, xmasterVars>>

\* the next stock of self.symbols.values(); dump_stock_to_file when selected
OutputAsciiNext ==
    /\ pc = "iter"
    /\ iterIdx < Len(catalogs[cur].order)
    /\ iterIdx' = iterIdx + 1
    /\ LET st == catalogs[cur].symbols[catalogs[cur].order[iterIdx + 1]]
       IN  IF all_symbols \/ st.stock_symbol \in symbols
           THEN /\ attempted' = Append(attempted, st.file_number)
                /\ stock' = st
                /\ pc' = "load_columns"
           ELSE UNCHANGED <<attempted, stock, pc>>
    /\ UNCHANGED <<ctorVars, callVars, openHandles, exc, errorLog, columns,
                   dopFile, datFile, max_recs, last_rec, cursor, outfile, line,
                   rec, col, codecVars, xmasterVars>>

OutputAsciiReturn ==
    /\ pc = "iter"
    /\ iterIdx >= Len(catalogs[cur].order)
    /\ pc' = "returned"
    /\ UNCHANGED <<ctorVars, callVars, openHandles, exc, iterIdx, attempted,
                   errorLog, stock, columns, dopFile, datFile, max_recs, last_rec,
                   cursor, outfile, line, rec, col, codecVars, xmasterVars>>

\* an exception raised inside the try block of dump_candles
RaiseInCandles(e) ==
    /\ exc' = e
    /\ pc' = "finally"

\* DatFile.load_columns, called by dump
LoadColumns ==
    /\ pc = "load_columns"
    /\ \E dop \in DopFiles :
         LET r == load_columns(stock, dop)
         IN  /\ dopFile' = dop
             /\ openHandles' = IF dop.exists /\ ~dop.readable
                               THEN openHandles \cup {"DOP"}  \* read() raised
                               ELSE openHandles
             /\ IF IsErr(r)
                THEN exc' = r.exc /\ pc' = "dump_except" /\ UNCHANGED columns
                ELSE columns' = r.v /\ pc' = "open_dat" /\ UNCHANGED exc
    /\ UNCHANGED <<ctorVars, callVars, iterIdx, attempted, errorLog, stock,
                   datFile, max_recs, last_rec, cursor, outfile, line, rec, col,
                   codecVars, xmasterVars>>

\* dump_candles: open the DAT file
OpenDat ==
    /\ pc = "open_dat"
    /\ \E f \in DatFiles \cup {NoDat} :
         IF ~f.exists
         THEN RaiseInCandles("FileNotFoundError") /\ UNCHANGED <<datFile, openHandles>>
         ELSE /\ datFile' = f
              /\ openHandles' = openHandles \cup {"DAT"}
              /\ pc' = "read_max_recs"
              /\ UNCHANGED exc
    /\ cursor' = 0
    /\ UNCHANGED <<ctorVars, callVars, iterIdx, attempted, errorLog, stock,
                   columns, dopFile, max_recs, last_rec, outfile, line, rec, col,
                   codecVars, xmasterVars>>

\* self.max_recs = struct.unpack("H", file_handle.read(2))[0]
ReadMaxRecs ==
    /\ pc = "read_max_recs"
    /\ \E bytes \in {<<>>, <<1>>, <<255, 255>>} :
         LET n == UnpackH(bytes)
         IN  /\ cursor' = cursor + Len(bytes)
             /\ IF IsErr(n)
                THEN RaiseInCandles(n.exc) /\ UNCHANGED max_recs
                ELSE max_recs' = n.v /\ pc' = "read_last_rec" /\ UNCHANGED exc
    /\ UNCHANGED <<ctorVars, callVars, openHandles, iterIdx, attempted, errorLog,
                   stock, columns, dopFile, datFile, last_rec, outfile, line, rec,
                   col, codecVars, xmasterVars>>

\* self.last_rec = struct.unpack("H", file_handle.read(2))[0]
ReadLastRec ==
    /\ pc = "read_last_rec"
    /\ \E bytes \in {<<>>} \cup {<<n, 0>> : n \in 0..MaxLastRec} :
         LET n == UnpackH(bytes)
         IN  /\ cursor' = cursor + Len(bytes)
             /\ IF IsErr(n)
                THEN RaiseInCandles(n.exc) /\ UNCHANGED last_rec
                ELSE last_rec' = n.v /\ pc' = "seek_header" /\ UNCHANGED exc
    /\ UNCHANGED <<ctorVars, callVars, openHandles, iterIdx, attempted, errorLog,
                   stock, columns, dopFile, datFile, max_recs, outfile, line, rec,
                   col, codecVars, xmasterVars>>

\* file_handle.seek((self.stock.fields - 1) * 4, os.SEEK_CUR)
SeekHeader ==
    /\ pc = "seek_header"
    /\ cursor' = cursor + (stock.fields - 1) * 4
    /\ pc' = "open_out"
    /\ UNCHANGED <<ctorVars, callVars, openHandles, exc, iterIdx, attempted,
                   errorLog, stock, columns, dopFile, datFile, max_recs, last_rec,
                   outfile, line, rec, col, codecVars, xmasterVars>>

\* outfile = open('%s.TXT' % self.stock.stock_symbol, 'w')
OpenOut ==
    /\ pc = "open_out"
    /\ \E ok \in BOOLEAN :
         IF ok
         THEN /\ outfile' = [created |-> TRUE, lines |-> <<>>, partial |-> <<>>]
              /\ openHandles' = openHandles \cup {"TXT"}
              /\ pc' = "write_header"
              /\ UNCHANGED exc
         ELSE RaiseInCandles("OSError") /\ UNCHANGED <<outfile, openHandles>>
    /\ UNCHANGED <<ctorVars, callVars, iterIdx, attempted, errorLog, stock,
                   columns, dopFile, datFile, max_recs, last_rec, cursor, line,
                   rec, col, codecVars, xmasterVars>>

\* the header line: '"Name"', then ',"<label>"' for each known column
WriteHeader ==
    /\ pc = "write_header"
    /\ outfile' = [outfile EXCEPT !.lines =
                      <<(<<[t |-> "label", v |-> "Name"]>> \o HeaderLabels(columns))>>]
    /\ rec' = 0
    /\ pc' = "record"
    /\ UNCHANGED <<ctorVars, callVars, openHandles, exc, iterIdx, attempted,
                   errorLog, stock, columns, dopFile, datFile, max_recs, last_rec,
                   cursor, line, col, codecVars, xmasterVars>>

CandleCount_all(lr) ==
    \* one iteration per record counted by last_rec
    lr

\* the bound of the record loop: range(self.last_rec - 1)
CandleCount(lr) == lr - 1

\* for _ in range(self.last_rec - 1): outfile.write(self.stock.stock_symbol)
RecordStart ==
    /\ pc = "record"
    /\ rec < CandleCount(last_rec)
    /\ line' = <<[t |-> "symbol", v |-> stock.stock_symbol]>>
    /\ col' = 1
    /\ pc' = "column"
    /\ UNCHANGED <<ctorVars, callVars, openHandles, exc, iterIdx, attempted,
                   errorLog, stock, columns, dopFile, datFile, max_recs, last_rec,
                   cursor, outfile, rec, codecVars, xmasterVars>>

\* one column of the record: skip it, or read, decode, format and write it
ColumnStep ==
    /\ pc = "column"
    /\ col <= Len(columns)
    /\ LET column == knownMSColumns(columns[col])
       IN  IF column = NoColumn
           THEN /\ cursor' = cursor + ColumnAdvance(column, 0)
                /\ col' = col + 1
                /\ UNCHANGED <<line, outfile, exc, pc>>
           ELSE \E nread \in {0, dataSize - 1, dataSize} :   \* short: end of file
                  LET bytes == SubSeq(BytesAt(datFile, cursor), 1, nread)
                      value == ColumnRead(column, bytes)
                  IN  /\ cursor' = cursor + ColumnAdvance(column, nread)
                      /\ IF IsErr(value)
                         THEN /\ RaiseInCandles(value.exc)
                              /\ outfile' = [outfile EXCEPT !.partial = line]
                              /\ UNCHANGED <<line, col>>
                         ELSE /\ line' = Append(line,
                                   ColumnFormat(column, value, FloatColumn_precision))
                              /\ col' = col + 1
                              /\ UNCHANGED <<outfile, exc, pc>>
    /\ UNCHANGED <<ctorVars, callVars, openHandles, iterIdx, attempted, errorLog,
                   stock, columns, dopFile, datFile, max_recs, last_rec, rec,
                   codecVars, xmasterVars>>

\* outfile.write('\n') after the last column of the record
RecordEnd ==
    /\ pc = "column"
    /\ col > Len(columns)
    /\ outfile' = [outfile EXCEPT !.lines = Append(@, line)]
    /\ line' = <<>>
    /\ rec' = rec + 1
    /\ pc' = "record"
    /\ UNCHANGED <<ctorVars, callVars, openHandles, exc, iterIdx, attempted,
                   errorLog, stock, columns, dopFile, datFile, max_recs, last_rec,
                   cursor, col, codecVars, xmasterVars>>

\* the record loop is exhausted
RecordLoopExit ==
    /\ pc = "record"
    /\ ~(rec < CandleCount(last_rec))
    /\ pc' = "finally"
    /\ UNCHANGED <<ctorVars, callVars, openHandles, exc, iterIdx, attempted,
                   errorLog, stock, columns, dopFile, datFile, max_recs, last_rec,
                   cursor, outfile, line, rec, col, codecVars, xmasterVars>>

\* finally: close outfile and file_handle when they are not None
Finally ==
    /\ pc = "finally"
    /\ openHandles' = openHandles \ {"TXT", "DAT"}
    /\ pc' = "dump_except"
    /\ UNCHANGED <<ctorVars, callVars, exc, iterIdx, attempted, errorLog, stock,
                   columns, dopFile, datFile, max_recs, last_rec, cursor, outfile,
                   line, rec, col, codecVars, xmasterVars>>

\* the end of DatFile.dump and of dump_stock_to_file: both wrap their body in
\* try / except Exception, print the symbol and the traceback, and return
DumpReturn ==
    /\ pc = "dump_except"
    /\ IF exc = None
       THEN pc' = "iter" /\ UNCHANGED <<exc, errorLog>>
       ELSE IF ExceptException(exc)
       THEN /\ errorLog' = Append(errorLog, stock.stock_symbol)
            /\ exc' = None
            /\ pc' = "iter"
       ELSE pc' = "raised" /\ UNCHANGED <<exc, errorLog>>
    /\ stock' = NoStock
    /\ FreshDatFile
    /\ UNCHANGED <<ctorVars, callVars, openHandles, iterIdx, attempted, codecVars, xmasterVars>>

\* ------------------------------------------------------------------------
\* The process: one catalog is constructed, then output_ascii runs on it

DefaultPrecision == 2       \* FloatColumn.precision

NoCodec == [fn |-> "none"]

InitProcess ==
    /\ pc = "start"
    /\ encoding = None
    /\ FloatColumn_precision = DefaultPrecision
    /\ catalogs = <<>>
    /\ master_count = 0
    /\ emaster_count = 0
    /\ i = 0
    /\ openHandles = {}
    /\ exc = None
    /\ cur = 0
    /\ all_symbols = FALSE
    /\ symbols = {}
    /\ iterIdx = 0
    /\ attempted = <<>>
    /\ errorLog = <<>>
    /\ stock = NoStock
    /\ columns = <<>>
    /\ dopFile = NoDop
    /\ datFile = NoDat
    /\ max_recs = 0
    /\ last_rec = 0
    /\ cursor = 0
    /\ outfile = NoOutfile
    /\ line = <<>>
    /\ rec = 0
    /\ col = 0
    /\ ret = NoCodec
    /\ xmaster = MSXMsterFile

Init ==
    /\ InitProcess
    /\ arg = NoCodec
    /\ masterFile \in [exists : BOOLEAN, content : {"any"}, records : {<<>>}]
    /\ emasterFile \in [exists : BOOLEAN, content : {"any"}, records : {<<>>}]
    /\ xmasterFile \in [exists : BOOLEAN]

\* the steps inside the constructor and inside output_ascii
Steps ==
    \/ MasterLoad
    \/ MasterLoadSymbol
    \/ MasterClose
    \/ EmasterLoad
    \/ EmasterLoadSymbol
    \/ EmasterClose
    \/ CtorReturn
    \/ OutputAsciiNext
    \/ OutputAsciiReturn
    \/ LoadColumns
    \/ OpenDat
    \/ ReadMaxRecs
    \/ ReadLastRec
    \/ SeekHeader
    \/ OpenOut
    \/ WriteHeader
    \/ RecordStart
    \/ ColumnStep
    \/ RecordEnd
    \/ RecordLoopExit
    \/ Finally
    \/ DumpReturn

Next ==
    \/ \E enc \in Encodings, precision \in PrecisionArgs :
         pc = "start" /\ Construct(enc, precision)
    \/ \E a \in CallArgs : OutputAscii(Len(catalogs), a.all, a.symbols)
    \/ Steps
    \/ XmasterLoad
    \/ XmasterClose

Spec == Init /\ [][Next]_vars

\* ------------------------------------------------------------------------
\* A process that constructs up to MaxConstructions catalogs, one after the
\* other, and then runs output_ascii on one of them

InitPrecision ==
    /\ InitProcess
    /\ arg = NoCodec
    /\ masterFile = [exists |-> TRUE, content |-> "one", records |-> <<>>]
    /\ emasterFile = [exists |-> TRUE, content |-> "one", records |-> <<>>]
    /\ xmasterFile = [exists |-> FALSE]

NextPrecision ==
    \/ \E precision \in PrecisionArgs \cup {<<0>>} :
         Len(catalogs) < MaxConstructions /\ Construct("ascii", precision)
    \/ \E c \in 1..Len(catalogs) : OutputAscii(c, TRUE, {})
    \/ Steps

SpecPrecision == InitPrecision /\ [][NextPrecision]_vars

\* ------------------------------------------------------------------------
\* The helpers of utils.py applied to one argument

YearParts == {0, 99, 100, 120, 2020, 8099, 8100}

\* the float n + half / 2, negated when neg
HalvesFloat(n, half, neg) ==
    IF n = 0 /\ half = 0 THEN Zero(neg)
    ELSE [kind |-> "fin", neg |-> neg, man |-> 2 * n + half, exp |-> -1]

DateInputs ==
    { [fn |-> "float2date", y |-> y, m |-> m, d |-> d, half |-> h, neg |-> n,
       x |-> HalvesFloat(y * 10000 + m * 100 + d, h, n)] :
         y \in YearParts, m \in 0..13, d \in 0..32, h \in {0, 1}, n \in BOOLEAN }

MbfInputs ==
    { [fn |-> "fmsbin2ieee", data |-> <<b0, b0, b2, b3>>] :
         b0 \in {0, 255}, b2 \in {0, 1, 127, 128, 255}, b3 \in 0..255 }
    \cup { [fn |-> "fmsbin2ieee", data |-> <<0, 0, 129>>] }

InitCodec ==
    /\ InitProcess
    /\ masterFile = [exists |-> FALSE, content |-> "any", records |-> <<>>]
    /\ emasterFile = [exists |-> FALSE, content |-> "any", records |-> <<>>]
    /\ xmasterFile = [exists |-> FALSE]
    /\ arg \in DateInputs \cup MbfInputs

ApplyFmsbin2ieee ==
    /\ pc = "start"
    /\ arg.fn = "fmsbin2ieee"
    /\ ret' = fmsbin2ieee(arg.data)
    /\ pc' = "applied"
    /\ UNCHANGED <<ctorVars, openHandles, exc, dumpVars, arg, xmasterVars>>

ApplyFloat2date ==
    /\ pc = "start"
    /\ arg.fn = "float2date"
    /\ ret' = float2date(arg.x)
    /\ pc' = "applied"
    /\ UNCHANGED <<ctorVars, openHandles, exc, dumpVars, arg, xmasterVars>>

NextCodec == ApplyFmsbin2ieee \/ ApplyFloat2date

SpecCodec == InitCodec /\ [][NextCodec]_vars

\* ------------------------------------------------------------------------
\* Properties

\* the catalog output_ascii runs on
Catalog == catalogs[cur]

\* the file numbers output_ascii selects, in the order of the catalog
Selected ==
    SelectSeq(Catalog.order,
              LAMBDA k : all_symbols \/ Catalog.symbols[k].stock_symbol \in symbols)

\* C1: a failure while converting one symbol never leaves output_ascii: no
\* exception is raised out of it, every message names a symbol attempted, and when
\* it returns every selected symbol has been attempted, in order
C1_FailuresContained ==
    /\ cur # 0 => pc # "raised"
    /\ Len(errorLog) <= Len(attempted)
    /\ pc = "returned" => exc = None /\ attempted = Selected

\* C1 witness: output_ascii returned after two symbols, the first of which failed
C1_Witness ==
    /\ pc = "returned"
    /\ Len(attempted) = 2
    /\ Len(errorLog) = 1
    /\ errorLog[1] = Catalog.symbols[attempted[1]].stock_symbol
    /\ errorLog[1] # Catalog.symbols[attempted[2]].stock_symbol

FileNumbers(f) == {f.records[k].file_number : k \in 1..Len(f.records)}

\* C2: the keys of a catalog never include 0 and every entry's file_number is
\* its key; when the constructor is done the keys are exactly the file numbers
\* above 0 of the MASTER records
C2_CatalogKeys ==
    /\ \A c \in 1..Len(catalogs) :
         /\ 0 \notin DOMAIN catalogs[c].symbols
         /\ \A k \in DOMAIN catalogs[c].symbols : catalogs[c].symbols[k].file_number = k
    /\ pc = "ctor_return" =>
         DOMAIN Building.symbols = {n \in FileNumbers(masterFile) : n > 0}

\* C2 witness: a catalog built from a MASTER file with an unused slot and an
\* EMASTER file with a record of a file number MASTER does not have
C2_Witness ==
    /\ pc = "ctor_return"
    /\ 0 \in FileNumbers(masterFile)
    /\ DOMAIN Building.symbols # {}
    /\ \E n \in FileNumbers(emasterFile) : n > 0 /\ n \notin FileNumbers(masterFile)

\* the last record of file f with file number k
LastRecord(f, k) ==
    f.records[CHOOSE j \in 1..Len(f.records) :
                 /\ f.records[j].file_number = k
                 /\ \A h \in (j + 1)..Len(f.records) : f.records[h].file_number # k]

\* the EMASTER records of file number k whose name is not empty
NamedIn(f, k) ==
    SelectSeq(f.records,
              LAMBDA r : r.file_number = k /\ paddedString(r.name, encoding).v # <<>>)

\* C3: when the constructor is done, every entry holds the values of the last
\* MASTER record of its key, except stock_name, which is the name of the last
\* EMASTER record of that key with a name, if there is one
C3_OnlyDisplayName ==
    pc = "ctor_return" =>
      \A k \in DOMAIN Building.symbols :
        LET e == Building.symbols[k]
            m == LastRecord(masterFile, k)
            named == NamedIn(emasterFile, k)
        IN  /\ e.file_number = m.file_number
            /\ e.record_length = m.record_length
            /\ e.fields = m.fields
            /\ e.stock_symbol = paddedString(m.symbol, "ascii").v
            /\ e.first_date = float2date(fmsbin2ieee(m.first_date))
            /\ e.last_date = float2date(fmsbin2ieee(m.last_date))
            /\ e.time_frame = m.time_frame
            /\ e.datafile_ext = ".DAT"
            /\ e.filename = <<"F", k>>
            /\ e.stock_name =
                 IF named # <<>>
                 THEN paddedString(named[Len(named)].name, encoding).v
                 ELSE paddedString(m.name, encoding).v

\* C3 witness: an entry renamed by an EMASTER record, followed by an EMASTER
\* record of the same key with an empty name
C3_Witness ==
    /\ pc = "ctor_return"
    /\ Len(emasterFile.records) = 2
    /\ \E k \in DOMAIN Building.symbols :
         /\ emasterFile.records[1].file_number = k
         /\ emasterFile.records[2].file_number = k
         /\ paddedString(emasterFile.records[2].name, encoding).v = <<>>
         /\ Building.symbols[k].stock_name = NameNEW
         /\ paddedString(LastRecord(masterFile, k).name, encoding).v # NameNEW

\* offset in the DAT file of column c (from 1) of record r (from 0)
ColumnOffset(r, c) == 4 + (stock.fields - 1) * 4 + 4 * (r * Len(columns) + (c - 1))

\* the known columns among self.columns, by position
KnownPositions ==
    SelectSeq([c \in 1..Len(columns) |-> c],
              LAMBDA c : knownMSColumns(columns[c]) # NoColumn)

\* the line of record r (from 0): the symbol and the known columns' values
RowOf(r) ==
    <<[t |-> "symbol", v |-> stock.stock_symbol]>> \o
    [k \in 1..Len(KnownPositions) |->
       LET c == KnownPositions[k]
           column == knownMSColumns(columns[c])
       IN ColumnFormat(column, ColumnRead(column, BytesAt(datFile, ColumnOffset(r, c))),
                       FloatColumn_precision)]

\* C4: a conversion that ended without an exception wrote one header line and
\* last_rec - 1 data rows (none when last_rec <= 1), each starting with the
\* symbol code, row r holding the values of record r of the DAT file
C4_HeaderAndRows ==
    (pc = "dump_except" /\ exc = None) =>
      LET n == IF last_rec <= 1 THEN 0 ELSE last_rec - 1
      IN  /\ outfile.created
          /\ outfile.partial = <<>>
          /\ Len(outfile.lines) = 1 + n
          /\ outfile.lines[1][1] = [t |-> "label", v |-> "Name"]
          /\ rec = n
          /\ \A r \in 0..(n - 1) :
               /\ outfile.lines[r + 2][1] = [t |-> "symbol", v |-> stock.stock_symbol]
               /\ outfile.lines[r + 2] = RowOf(r)

\* C4 witness: a conversion of a symbol of 7 fields that wrote two data rows
C4_Witness ==
    /\ pc = "dump_except"
    /\ exc = None
    /\ last_rec = 3
    /\ Len(columns) = 7
    /\ Len(outfile.lines) = 3
    /\ outfile.lines[2] # outfile.lines[3]

\* C5: while records are decoded the cursor is past the header and past 4 bytes
\* for every column done, known or not: 4 + (fields - 1) * 4 + 4 * k * columns
\* after k records; and every data row written has as many values as the
\* header has labels, one per known column
C5_CursorAndFields ==
    /\ pc = "record" => cursor = ColumnOffset(rec, 1)
    /\ pc = "column" => cursor = ColumnOffset(rec, col)
    /\ pc = "column" => Len(line) - 1 =
         Cardinality({c \in 1..(col - 1) : knownMSColumns(columns[c]) # NoColumn})
    /\ \A r \in 1..Len(outfile.lines) :
         Len(outfile.lines[r]) - 1 = Len(KnownPositions)

\* C5 witness: two records done of a DAT file with a column that is not known
\* between known ones
C5_Witness ==
    /\ pc = "record"
    /\ rec = 2
    /\ columns = <<"DATE", "FOO", "CLOSE">>
    /\ cursor = 4 + 2 * 4 + 4 * 2 * 3
    /\ Len(outfile.lines) = 3
    /\ Len(outfile.lines[3]) = 3

\* the positions of dump at which load_columns has run
AfterLoadColumns ==
    {"open_dat", "read_max_recs", "read_last_rec", "seek_header", "open_out",
     "write_header", "record", "column", "finally", "dump_except"}

\* C6: without a DOP file load_columns takes DATE,OPEN,HIGH,LOW,CLOSE,VOL,OI
\* for 7 fields and DATE,TIME,OPEN,HIGH,LOW,CLOSE,VOL,OI for 8; with any other
\* field count dump ends with the failure, no DAT file opened and no output
\* file created
C6_DefaultColumns ==
    (pc \in AfterLoadColumns /\ ~dopFile.exists) =>
      IF stock.fields = 7
        THEN columns = <<"DATE", "OPEN", "HIGH", "LOW", "CLOSE", "VOL", "OI">>
      ELSE IF stock.fields = 8
        THEN columns = <<"DATE", "TIME", "OPEN", "HIGH", "LOW", "CLOSE", "VOL", "OI">>
      ELSE /\ pc = "dump_except"
           /\ exc = "AssertionError"
           /\ ~datFile.exists
           /\ ~outfile.created
           /\ openHandles \cap {"DAT", "TXT"} = {}

\* C6 witness: a symbol of 3 fields without a DOP file has failed
C6_Witness ==
    /\ pc = "dump_except"
    /\ stock.fields = 3
    /\ ~dopFile.exists
    /\ exc = "AssertionError"

\* C7: an operation that has ended, normally or with an exception, has closed
\* the handles it opened: the constructor MASTER and EMASTER, load_columns the
\* DOP file, dump_candles the DAT and the TXT file
C7_HandlesClosed ==
    /\ pc \in {"ready", "raised"} => openHandles \cap {"MASTER", "EMASTER"} = {}
    /\ pc \in AfterLoadColumns => "DOP" \notin openHandles
    /\ pc = "dump_except" => openHandles \cap {"DAT", "TXT"} = {}

\* the rows written so far to the output file and the one being built
Rows == outfile.lines \o <<line>>

\* the precision the catalog in use was constructed with
ConfiguredPrecision ==
    IF Catalog.precision = <<>> THEN DefaultPrecision ELSE Catalog.precision[1]

\* C8: the OPEN/HIGH/LOW/CLOSE values of a conversion are written with the
\* precision the catalog in use was constructed with, 2 when it was given none
C8_PrecisionOfCatalog ==
    pc \in {"record", "column"} =>
      \A r \in 1..Len(Rows) : \A k \in 1..Len(Rows[r]) :
         Rows[r][k].t = "%0.f" => Rows[r][k].digits = ConfiguredPrecision

\* the 16-bit sign test of the exponent-overflow rule on the last two bytes
ExponentOverflow(data) ==
    LET man == data[3] + 256 * data[4]
        exp == Low16(BitAnd(man, 65280) - 512)
    IN  man # 0 /\ (exp >= 32768) # (man >= 32768)

One == [kind |-> "fin", neg |-> FALSE, man |-> 8388608, exp |-> -23]

\* C9: fmsbin2ieee returns 1.0, and raises nothing, for 4 bytes whose last two
\* are not both zero and whose exponent overflows
C9_OverflowSentinel ==
    (pc = "applied" /\ arg.fn = "fmsbin2ieee" /\ Len(arg.data) = 4
       /\ ExponentOverflow(arg.data)) => ret = One

\* a calendar day
IsCalendarDay(y, m, d) ==
    /\ y >= 1 /\ y <= 9999
    /\ m >= 1 /\ m <= 12
    /\ d >= 1 /\ d <= DaysInMonth(y, m)

\* C10 as stated: float2date of the integer form YYYYMMDD of a calendar day
\* returns year YYYY, month MM, day DD
C10_YearAsWritten ==
    (pc = "applied" /\ arg.fn = "float2date" /\ ~arg.neg /\ arg.y >= 1000
       /\ IsCalendarDay(arg.y, arg.m, arg.d)) =>
      /\ ret.kind = "date"
      /\ ret.year = arg.y /\ ret.month = arg.m /\ ret.day = arg.d

\* C10 amended: float2date of a value whose integer form n >= 101 is
\* Y * 10000 + MM * 100 + DD, MM/DD a calendar day of the year 1900 + Y, returns
\* year 1900 + Y, month MM, day DD, and (year - 1900) * 10000 + month * 100 + day
\* is n again; 1200615.0 gives 2020-06-15 and 20200615.0 gives 3920-06-15
C10_YearOffset1900 ==
    (pc = "applied" /\ arg.fn = "float2date" /\ ~arg.neg
       /\ arg.y * 10000 + arg.m * 100 + arg.d >= 101
       /\ IsCalendarDay(1900 + arg.y, arg.m, arg.d)) =>
      /\ ret.kind = "date"
      /\ ret.year = 1900 + arg.y /\ ret.month = arg.m /\ ret.day = arg.d
      /\ (ret.year - 1900) * 10000 + ret.month * 100 + ret.day
           = arg.y * 10000 + arg.m * 100 + arg.d
      /\ (arg.y = 120 /\ arg.m = 6 /\ arg.d = 15) =>
           (ret.year = 2020 /\ ret.month = 6 /\ ret.day = 15)

\* C10 witness: float2date(20200615.0) has returned 3920-06-15
C10_Witness ==
    /\ pc = "applied"
    /\ arg.fn = "float2date"
    /\ arg.y = 2020 /\ arg.m = 6 /\ arg.d = 15 /\ arg.half = 0 /\ ~arg.neg
    /\ ret = [kind |-> "date", year |-> 3920, month |-> 6, day |-> 15]

\* C11: an index reader whose file is absent keeps its record count at 0 and
\* has no handle, before and after close; the constructor never raises because
\* of an absent file (when it raises, the file being read exists and is open),
\* so it never raises when MASTER and EMASTER are both absent; and with MASTER
\* absent every catalog is empty, whatever records EMASTER holds
C11_AbsentFilesTolerated ==
    /\ ~masterFile.exists =>
         /\ master_count = 0
         /\ "MASTER" \notin openHandles
         /\ \A c \in 1..Len(catalogs) :
              catalogs[c].order = <<>> /\ DOMAIN catalogs[c].symbols = {}
    /\ ~emasterFile.exists =>
         /\ emaster_count = 0
         /\ "EMASTER" \notin openHandles
    /\ ~xmasterFile.exists =>
         /\ xmaster = MSXMsterFile
         /\ "XMASTER" \notin openHandles
         /\ pc # "xmaster_raised"
    /\ pc = "raised" =>
         \/ masterFile.exists /\ "MASTER" \in openHandles
         \/ emasterFile.exists /\ "EMASTER" \in openHandles
    /\ (~masterFile.exists /\ ~emasterFile.exists) => pc # "raised"

\* C11 witness: the constructor is done with MASTER absent and an EMASTER file
\* of a record with a file number and a name, and the catalog is empty
C11_Witness ==
    /\ pc = "ctor_return"
    /\ ~masterFile.exists
    /\ emasterFile.exists
    /\ Len(NamedIn(emasterFile, 1)) > 0
    /\ Building.order = <<>>
    /\ openHandles = {}

====
